---- MODULE Spec2Model ----
(***************************************************************************)
(* Korean election results crawler: the retrying HTTP client, the content  *)
(* classifier, the crawl orchestrator (election_crawler.py) and the HTML   *)
(* table extractor (html_to_csv_parser.py).                                *)
(*                                                                         *)
(* Five specifications share the module:                                   *)
(*   SpecRetry    _make_request_with_retry, one step per sleep / request   *)
(*   SpecClassify _detect_content_type over bounded headers and bodies     *)
(*   SpecParser   _extract_headers / _extract_data_rows over bounded rows  *)
(*   Spec         crawl_all_locations, sequential and concurrent           *)
(*   SpecLookup   get_town_codes_for_city over bounded responses           *)
(* Each specification parks the variables of the other four.               *)
(***************************************************************************)
EXTENDS Integers, Sequences, FiniteSets, TLC

VARIABLES
    r_pc,        \* _make_request_with_retry: "idle","backoff","request","returned","raised"
    r_method,    \* the method argument of the call in progress
    r_attempt,   \* the loop variable `attempt`
    r_events,    \* what the call did so far: sleeps and transport invocations, in order
    c_header,    \* _detect_content_type: the response's Content-Type header value (bytes)
    c_body,      \* response.content (bytes)
    c_result,    \* the value returned, "none" before the call
    p_table,     \* html_to_csv_parser: the data table of the document being parsed
    p_pc,        \* parse_html_file: "table", "headers" (after _extract_headers), "rows"
    p_headers,   \* the list returned by _extract_headers
    p_records,   \* the list returned by _extract_data_rows
    mode,        \* crawl_all_locations: use_concurrent, "sequential" or "concurrent"
    pc,          \* the main thread: "start", "lookup", "download", "pool", "draining",
                 \* "done", "interrupted", "raised"
    run,         \* "first", or "again" when the program has run over the directory before
    now,         \* int(time.time())
    city_codes,  \* the region codes get_city_town_codes returned
    city_idx,    \* the region the loop over city_codes is at
    download_tasks, \* the (city, town) pairs not yet handed to download_excel_for_location
    submitted,   \* the (city, town) pairs the lookups of this run have yielded
    workers,     \* the threads running download_excel_for_location (thread 1 alone when sequential)
    download_dir, \* the download directory: file name -> [size, by]
    stats,       \* self.stats
    outcomes,    \* the calls of download_excel_for_location completed in this run
    raised_by,   \* what made crawl_all_locations raise, "none" when it did not
    lookup_exc,  \* the exception the last get_town_codes_for_city ended in, "none" when it returned
    printed,     \* the statistics _print_final_stats has logged in this run, in order
    exit_code,   \* what main returned, "none" while it runs
    max_workers, \* crawl_all_locations: max_workers, the size of the pool
    invoked,     \* the pairs download_excel_for_location was called with in this run, in order
    town_pages,  \* region code -> the bodies the sub-region endpoint may answer with
    listed,      \* the pairs the lookups of this run have yielded, in the order returned
    l_outs,      \* get_town_codes_for_city alone: the outcomes of the attempts of its GET
    l_payload,   \* the body of the response
    l_result,    \* what the call ended in, Pending before it
    f_resp,      \* _get_filename_from_response alone: the response
    f_time,      \* int(time.time()) at the call
    f_filename   \* the name it returned, <<>> before the call

retryVars == <<r_pc, r_method, r_attempt, r_events>>
classifyVars == <<c_header, c_body, c_result>>
parserVars == <<p_table, p_pc, p_headers, p_records>>

crawlVars == <<mode, pc, run, now, city_codes, city_idx, download_tasks, submitted, workers,
               download_dir, stats, outcomes, raised_by, lookup_exc, printed, exit_code,
               invoked, max_workers, town_pages, listed>>

lookupVars == <<l_outs, l_payload, l_result>>

filenameVars == <<f_resp, f_time, f_filename>>

vars == <<retryVars, classifyVars, parserVars, crawlVars, lookupVars, filenameVars>>

notRetryVars == <<classifyVars, parserVars, crawlVars, lookupVars, filenameVars>>
notClassifyVars == <<retryVars, parserVars, crawlVars, lookupVars, filenameVars>>
notParserVars == <<retryVars, classifyVars, crawlVars, lookupVars, filenameVars>>
notCrawlVars == <<retryVars, classifyVars, parserVars, lookupVars, filenameVars>>
notLookupVars == <<retryVars, classifyVars, parserVars, crawlVars, filenameVars>>
notFilenameVars == <<retryVars, classifyVars, parserVars, crawlVars, lookupVars>>

-----------------------------------------------------------------------------
(* config.py *)

MAX_RETRIES == 3
RETRY_DELAY == 2

-----------------------------------------------------------------------------
(* HttpRetryClient: ElectionCrawler._make_request_with_retry *)

\* What one session.request + raise_for_status can end in.  Every value but
\* "ok" is a requests.exceptions.RequestException (ConnectionError, Timeout,
\* HTTPError raised by raise_for_status for a 4xx or a 5xx status).
TransportFailures == {"conn_error", "timeout", "http_5xx", "http_4xx"}
TransportOutcomes == {"ok"} \cup TransportFailures

Methods == {"GET", "POST"}

\* random.uniform(0.5, 1.5), in halves
JitterHalves == {1, 2, 3}

RECURSIVE Pow2(_)
Pow2(n) == IF n = 0 THEN 1 ELSE 2 * Pow2(n - 1)

\* delay = RETRY_DELAY * (2 ** attempt) * jitter, in half seconds
BackoffDelay(attempt, jitterHalves) == RETRY_DELAY * Pow2(attempt) * jitterHalves

SleepEvent(attempt, d) == [ev |-> "sleep", attempt |-> attempt, info |-> d]
RequestEvent(attempt, out) == [ev |-> "request", attempt |-> attempt, info |-> out]

RetryIdle ==
    /\ r_pc = "idle"
    /\ r_method = "GET"
    /\ r_attempt = 0
    /\ r_events = <<>>

\* a client that sleeps before the first attempt too
NeedsBackoff_Always(attempt) == TRUE

\* the loop's first statement: sleep before every attempt but the first
NeedsBackoff(attempt) == attempt > 0

\* a client that gives up one attempt early
IsLastAttempt_Early(attempt) == attempt >= MAX_RETRIES - 2

\* the except clause's test for the last attempt
IsLastAttempt(attempt) == attempt = MAX_RETRIES - 1

\* a client that retries transport errors, timeouts and 5xx statuses only
CaughtByRetry_No4xx(out) == out \in {"conn_error", "timeout", "http_5xx"}

\* line 147: except requests.exceptions.RequestException; what it does not
\* catch leaves the function at once
CaughtByRetry(out) == out \in TransportFailures

\* entering the function: the first iteration of `for attempt in range(MAX_RETRIES)`
RetryCall ==
    /\ r_pc = "idle"
    /\ \E m \in Methods : r_method' = m
    /\ r_attempt' = 0
    /\ r_events' = <<>>
    /\ r_pc' = IF NeedsBackoff(0) THEN "backoff" ELSE "request"
    /\ UNCHANGED notRetryVars

\* lines 135-139: time.sleep(delay) with a fresh jitter
RetryBackoff ==
    /\ r_pc = "backoff"
    /\ \E j \in JitterHalves :
          r_events' = Append(r_events, SleepEvent(r_attempt, BackoffDelay(r_attempt, j)))
    /\ r_pc' = "request"
    /\ UNCHANGED <<r_method, r_attempt>>
    /\ UNCHANGED notRetryVars

\* lines 141-149: the transport call, raise_for_status, return or the except clause
RetryAttempt ==
    /\ r_pc = "request"
    /\ \E out \in TransportOutcomes :
          /\ r_events' = Append(r_events, RequestEvent(r_attempt, out))
          /\ IF out = "ok"
                THEN /\ r_pc' = "returned"
                     /\ UNCHANGED r_attempt
                ELSE IF ~CaughtByRetry(out) \/ IsLastAttempt(r_attempt)
                        THEN /\ r_pc' = "raised"
                             /\ UNCHANGED r_attempt
                        ELSE /\ r_attempt' = r_attempt + 1
                             /\ r_pc' = IF NeedsBackoff(r_attempt + 1) THEN "backoff" ELSE "request"
    /\ UNCHANGED r_method
    /\ UNCHANGED notRetryVars

\* the caller is free to make another call once this one has ended
RetryDone ==
    /\ r_pc \in {"returned", "raised"}
    /\ r_pc' = "idle"
    /\ r_attempt' = 0
    /\ r_events' = <<>>
    /\ UNCHANGED r_method
    /\ UNCHANGED notRetryVars

RetryNext == RetryCall \/ RetryBackoff \/ RetryAttempt \/ RetryDone

-----------------------------------------------------------------------------
(* Byte strings.  A byte string is a sequence of 0..255, a text a sequence  *)
(* of code points.                                                          *)

Min(a, b) == IF a < b THEN a ELSE b
Max(a, b) == IF a > b THEN a ELSE b

\* s[:n]
Take(s, n) == SubSeq(s, 1, Min(n, Len(s)))

\* s[n:]
Drop(s, n) == SubSeq(s, Min(n, Len(s)) + 1, Len(s))

\* bytes.startswith / str.startswith
StartsWith(s, prefix) ==
    /\ Len(prefix) <= Len(s)
    /\ SubSeq(s, 1, Len(prefix)) = prefix

\* `needle in hay` for str
Contains(hay, needle) ==
    \E i \in 1..(Len(hay) - Len(needle) + 1) :
        SubSeq(hay, i, i + Len(needle) - 1) = needle

\* the length of the UTF-8 sequence a lead byte announces, 0 for a byte that
\* cannot start one (a continuation byte, 0xC0, 0xC1, 0xF5..0xFF)
Utf8Need(b) ==
    IF b < 128 THEN 1
    ELSE IF b \in 194..223 THEN 2
    ELSE IF b \in 224..239 THEN 3
    ELSE IF b \in 240..244 THEN 4
    ELSE 0

\* the bytes allowed at position k (2..4) of a sequence led by `lead`
Utf8ContOk(lead, k, b) ==
    IF k = 2 /\ lead = 224 THEN b \in 160..191
    ELSE IF k = 2 /\ lead = 237 THEN b \in 128..159
    ELSE IF k = 2 /\ lead = 240 THEN b \in 144..191
    ELSE IF k = 2 /\ lead = 244 THEN b \in 128..143
    ELSE b \in 128..191

\* how many of the need-1 continuation bytes after position i are present and valid
RECURSIVE Utf8ValidCont(_, _, _, _)
Utf8ValidCont(s, i, k, need) ==
    IF k > need \/ i + k - 1 > Len(s) THEN 0
    ELSE IF Utf8ContOk(s[i], k, s[i + k - 1])
         THEN 1 + Utf8ValidCont(s, i, k + 1, need)
         ELSE 0

Utf8CodePoint(s, i, need) ==
    IF need = 2 THEN (s[i] - 192) * 64 + (s[i + 1] - 128)
    ELSE IF need = 3 THEN (s[i] - 224) * 4096 + (s[i + 1] - 128) * 64 + (s[i + 2] - 128)
    ELSE (s[i] - 240) * 262144 + (s[i + 1] - 128) * 4096 + (s[i + 2] - 128) * 64 + (s[i + 3] - 128)

\* bytes.decode('utf-8', errors='ignore'): an ill-formed or truncated sequence is
\* dropped (its lead byte and the continuation bytes that were valid), never raised
RECURSIVE Utf8DecodeFrom(_, _)
Utf8DecodeFrom(s, i) ==
    IF i > Len(s) THEN <<>>
    ELSE LET need == Utf8Need(s[i]) IN
         IF need = 0 THEN Utf8DecodeFrom(s, i + 1)
         ELSE IF need = 1 THEN <<s[i]>> \o Utf8DecodeFrom(s, i + 1)
         ELSE LET ok == Utf8ValidCont(s, i, 2, need) IN
              IF ok = need - 1
              THEN <<Utf8CodePoint(s, i, need)>> \o Utf8DecodeFrom(s, i + need)
              ELSE Utf8DecodeFrom(s, i + 1 + ok)

DecodeIgnore(s) == Utf8DecodeFrom(s, 1)

\* str.lower(), on the code points whose lower case the indicators can meet
LowerChar(c) == IF c \in 65..90 THEN c + 32 ELSE c
Lower(t) == [i \in DOMAIN t |-> LowerChar(t[i])]

-----------------------------------------------------------------------------
(* ContentClassifier: ElectionCrawler._detect_content_type *)

CT_TEXT_HTML == <<116, 101, 120, 116, 47, 104, 116, 109, 108>>  \* 'text/html'
CT_APP_HTML == <<97, 112, 112, 108, 105, 99, 97, 116, 105, 111, 110, 47, 104, 116, 109, 108>>  \* 'application/html'
CT_MS_EXCEL == <<97, 112, 112, 108, 105, 99, 97, 116, 105, 111, 110, 47, 118, 110, 100, 46, 109, 115, 45, 101, 120, 99, 101, 108>>  \* 'application/vnd.ms-excel'
CT_APP_EXCEL == <<97, 112, 112, 108, 105, 99, 97, 116, 105, 111, 110, 47, 101, 120, 99, 101, 108>>  \* 'application/excel'
CT_OCTET == <<97, 112, 112, 108, 105, 99, 97, 116, 105, 111, 110, 47, 111, 99, 116, 101, 116, 45, 115, 116, 114, 101, 97, 109>>  \* 'application/octet-stream'

IND_DOCTYPE == <<60, 33, 100, 111, 99, 116, 121, 112, 101, 32, 104, 116, 109, 108>>  \* '<!doctype html'
IND_HTML == <<60, 104, 116, 109, 108>>  \* '<html'
IND_HEAD == <<60, 104, 101, 97, 100, 62>>  \* '<head>'
IND_BODY == <<60, 98, 111, 100, 121, 62>>  \* '<body>'
IND_TABLE == <<60, 116, 97, 98, 108, 101>>  \* '<table'
html_indicators == {IND_DOCTYPE, IND_HTML, IND_HEAD, IND_BODY, IND_TABLE}

MAGIC_OLE2 == <<208, 207, 17, 224, 161, 177, 26, 225>>  \* b'\xd0\xcf\x11\xe0\xa1\xb1\x1a\xe1'
MAGIC_ZIP == <<80, 75, 3, 4>>  \* b'PK\x03\x04'

SNIFF_TEXT_LEN == 4096   \* response.content[:4096]
SNIFF_MAGIC_LEN == 8     \* response.content[:8]

\* 'text/html' in content_type or 'application/html' in content_type
HeaderSaysHtml(ct) == Contains(ct, CT_TEXT_HTML) \/ Contains(ct, CT_APP_HTML)

\* 'application/vnd.ms-excel' in content_type or 'application/excel' in content_type
HeaderSaysExcel(ct) == Contains(ct, CT_MS_EXCEL) \/ Contains(ct, CT_APP_EXCEL)

\* content_start = response.content[:4096].decode('utf-8', errors='ignore').lower()
ContentStart(body) == Lower(DecodeIgnore(Take(body, SNIFF_TEXT_LEN)))

\* any(indicator in content_start for indicator in html_indicators)
HasHtmlIndicator(body) ==
    \E ind \in html_indicators : Contains(ContentStart(body), ind)

\* a classifier that knows the OLE2 signature only
HasExcelMagic_Ole2Only(body) == StartsWith(Take(body, SNIFF_MAGIC_LEN), MAGIC_OLE2)

\* content_bytes.startswith(OLE2) or content_bytes.startswith(ZIP)
HasExcelMagic(body) ==
    LET content_bytes == Take(body, SNIFF_MAGIC_LEN) IN
    StartsWith(content_bytes, MAGIC_OLE2) \/ StartsWith(content_bytes, MAGIC_ZIP)

\* a sniffing that tests the magic numbers before the HTML indicators
SniffContent_MagicFirst(body) ==
    IF HasExcelMagic(body) THEN "excel"
    ELSE IF HasHtmlIndicator(body) THEN "html"
    ELSE "unknown"

\* The content sniffing of lines 388-409.  decode(errors='ignore') raises no
\* UnicodeDecodeError and response.content is always bytes, so the except
\* clause of lines 405-407 is never entered.
SniffContent(body) ==
    IF HasHtmlIndicator(body) THEN "html"
    ELSE IF HasExcelMagic(body) THEN "excel"
    ELSE "unknown"

\* header: the Content-Type value, <<>> when the header is absent (the default '')
DetectContentType(header, body) ==
    LET content_type == Lower(header) IN
    IF HeaderSaysHtml(content_type) THEN "html"
    ELSE IF HeaderSaysExcel(content_type) THEN "excel"
    ELSE SniffContent(body)

\* The inputs the classifier is exercised on.
HDR_HTML_UPPER == <<84, 101, 120, 116, 47, 72, 84, 77, 76, 59, 32, 99, 104, 97, 114, 115, 101, 116, 61, 85, 84, 70, 45, 56>>  \* 'Text/HTML; charset=UTF-8'
HDR_JSON == <<97, 112, 112, 108, 105, 99, 97, 116, 105, 111, 110, 47, 106, 115, 111, 110>>  \* 'application/json'
SampleHeaders ==
    {<<>>, CT_TEXT_HTML, HDR_HTML_UPPER, CT_APP_HTML, CT_MS_EXCEL, CT_APP_EXCEL, CT_OCTET, HDR_JSON}

CHUNK_TABLE_UPPER == <<60, 84, 65, 66, 76, 69>>  \* '<TABLE'
CHUNK_SPLIT_TABLE == <<60, 116, 97, 255, 98, 108, 101>>  \* b'<ta\xffble'
CHUNK_TEXT == <<97, 98>>  \* 'ab'
CHUNK_KOREAN == <<234, 176, 128>>  \* U+AC00 in UTF-8
CHUNK_INVALID == <<255, 254>>  \* not UTF-8
SampleChunks ==
    {MAGIC_ZIP, MAGIC_OLE2, IND_HTML, CHUNK_TABLE_UPPER, CHUNK_SPLIT_TABLE,
     CHUNK_TEXT, CHUNK_KOREAN, CHUNK_INVALID}

MaxChunks == 2

RECURSIVE Bodies(_)
Bodies(n) ==
    IF n = 0 THEN {<<>>}
    ELSE LET shorter == Bodies(n - 1) IN
         shorter \cup {b \o c : b \in shorter, c \in SampleChunks}

SampleBodies == Bodies(MaxChunks)

ClassifyIdle ==
    /\ c_header = <<>>
    /\ c_body = <<>>
    /\ c_result = "none"

ClassifyInputs ==
    /\ c_header \in SampleHeaders
    /\ c_body \in SampleBodies
    /\ c_result = "none"

\* one call of _detect_content_type(response)
Classify ==
    /\ c_result = "none"
    /\ c_result' = DetectContentType(c_header, c_body)
    /\ UNCHANGED <<c_header, c_body>>
    /\ UNCHANGED notClassifyVars

ClassifyNext == Classify

-----------------------------------------------------------------------------
(* TableExtractor: ElectionHTMLParser in html_to_csv_parser.py.  A text is a *)
(* sequence of code points; a dict is a function from keys to values.       *)

\* what str.strip() strips and the regular expression \s matches
IsSpace(c) ==
    c \in (9..13) \cup (28..32) \cup {133, 160, 5760} \cup (8192..8202)
          \cup {8232, 8233, 8239, 8287, 12288}

\* text.strip()
RECURSIVE LStrip(_)
LStrip(t) == IF t # <<>> /\ IsSpace(Head(t)) THEN LStrip(Tail(t)) ELSE t

RECURSIVE RStrip(_)
RStrip(t) ==
    IF t # <<>> /\ IsSpace(t[Len(t)]) THEN RStrip(SubSeq(t, 1, Len(t) - 1)) ELSE t

Strip(t) == RStrip(LStrip(t))

\* re.sub(r'\s+', ' ', t): every run of white space becomes one space
RECURSIVE CollapseSpaces(_)
CollapseSpaces(t) ==
    IF t = <<>> THEN <<>>
    ELSE IF IsSpace(Head(t))
         THEN <<32>> \o CollapseSpaces(LStrip(t))
         ELSE <<Head(t)>> \o CollapseSpaces(Tail(t))

\* .replace('\n', ' ').replace('\r', ' ')
ReplaceLineBreaks(t) == [i \in DOMAIN t |-> IF t[i] \in {10, 13} THEN 32 ELSE t[i]]

\* _clean_text
CleanText(text) ==
    IF text = <<>> THEN <<>>
    ELSE ReplaceLineBreaks(CollapseSpaces(Strip(text)))

CANDIDATE_LABEL == <<54980, 48372, 51088, 48324, 32, 46301, 54364, 49688>>  \* "후보자별 득표수"

\* table.find_all('tr'): the rows of the table in document order
AllRows(t) == t.hrows \o t.drows

\* lines 72-77: the rows of thead when there is one, else the first two rows
HeaderRows(t) == IF t.thead THEN t.hrows ELSE Take(AllRows(t), 2)

\* a walk that emits the candidate cells and forgets to remove them from second_row
RECURSIVE WalkFirstRow_NoConsume(_, _, _, _)
WalkFirstRow_NoConsume(first_row, i, headers, second_row) ==
    IF i > Len(first_row)
    THEN [headers |-> headers, second_row |-> second_row]
    ELSE LET cell == first_row[i]
             text == CleanText(cell.text)
         IN  IF cell.rowspan = 2
             THEN WalkFirstRow_NoConsume(first_row, i + 1, Append(headers, text), second_row)
             ELSE IF text = CANDIDATE_LABEL
                  THEN LET candidate_cells == Take(second_row, cell.colspan) IN
                       WalkFirstRow_NoConsume(first_row, i + 1,
                           headers \o [k \in DOMAIN candidate_cells |->
                                           CleanText(candidate_cells[k].text)],
                           second_row)
                  ELSE WalkFirstRow_NoConsume(first_row, i + 1, Append(headers, text), second_row)

\* lines 86-105, one iteration per cell of the first row, from cell i on;
\* second_row is what is left of the second row's cells
RECURSIVE WalkFirstRow(_, _, _, _)
WalkFirstRow(first_row, i, headers, second_row) ==
    IF i > Len(first_row)
    THEN [headers |-> headers, second_row |-> second_row]
    ELSE LET cell == first_row[i]
             text == CleanText(cell.text)
         IN  IF cell.rowspan = 2
             THEN WalkFirstRow(first_row, i + 1, Append(headers, text), second_row)
             ELSE IF text = CANDIDATE_LABEL
                  THEN LET candidate_cells == Take(second_row, cell.colspan) IN
                       WalkFirstRow(first_row, i + 1,
                           headers \o [k \in DOMAIN candidate_cells |->
                                           CleanText(candidate_cells[k].text)],
                           Drop(second_row, cell.colspan))
                  ELSE WalkFirstRow(first_row, i + 1, Append(headers, text), second_row)

\* _extract_headers, for a table with at least one header row
ExtractHeaders(t) ==
    LET header_rows == HeaderRows(t) IN
    IF Len(header_rows) >= 2
    THEN LET walked == WalkFirstRow(header_rows[1], 1, <<>>, header_rows[2]) IN
         walked.headers \o
             [k \in DOMAIN walked.second_row |-> CleanText(walked.second_row[k].text)]
    ELSE [k \in DOMAIN header_rows[1] |-> CleanText(header_rows[1][k].text)]

\* lines 120-126: the rows of tbody when there is one, else the rows after
\* the first two (after the first when the table has at most two rows)
DataRows(t) ==
    IF t.tbody THEN t.drows
    ELSE LET all_rows == AllRows(t) IN
         IF Len(all_rows) > 2 THEN Drop(all_rows, 2) ELSE Drop(all_rows, 1)

\* str(i) in decimal
RECURSIVE Decimal(_)
Decimal(i) == IF i < 10 THEN <<48 + i>> ELSE Decimal(i \div 10) \o <<48 + (i % 10)>>

EXTRA_COLUMN == <<69, 120, 116, 114, 97, 95, 67, 111, 108, 117, 109, 110, 95>>  \* 'Extra_Column_'

\* a key numbered from one
ExtraKey_OneBased(i) == EXTRA_COLUMN \o Decimal(i + 1)

\* f'Extra_Column_{i}', i the zero-based position of the cell
ExtraKey(i) == EXTRA_COLUMN \o Decimal(i)

EmptyDict == [k \in {} |-> <<>>]

\* d[k] = v
DictSet(d, k, v) == [x \in (DOMAIN d) \cup {k} |-> IF x = k THEN v ELSE d[x]]

\* the key cell number n (one-based) of a row is stored under, lines 139-144
CellKey(n, headers) == IF n - 1 < Len(headers) THEN headers[n] ELSE ExtraKey(n - 1)

\* lines 138-144: the cells of one row, from cell n on, written into row_data
RECURSIVE MapCells(_, _, _, _)
MapCells(cells, n, headers, row_data) ==
    IF n > Len(cells) THEN row_data
    ELSE MapCells(cells, n + 1, headers,
                  DictSet(row_data, CellKey(n, headers), CleanText(cells[n].text)))

\* an extractor that leaves the missing columns out
FillMissing_None(row_data, headers) == row_data

\* lines 147-149: every header that is no key yet gets ''
FillMissing(row_data, headers) ==
    LET missing == {headers[i] : i \in DOMAIN headers} \ DOMAIN row_data IN
    [x \in (DOMAIN row_data) \cup missing |-> IF x \in missing THEN <<>> ELSE row_data[x]]

\* lines 135-149: the record of one row
RowRecord(cells, headers) == FillMissing(MapCells(cells, 1, headers, EmptyDict), headers)

\* lines 130-151, from row r on: rows without cells are skipped
RECURSIVE RecordsFrom(_, _, _)
RecordsFrom(rows, r, headers) ==
    IF r > Len(rows) THEN <<>>
    ELSE IF Len(rows[r]) = 0 THEN RecordsFrom(rows, r + 1, headers)
    ELSE <<RowRecord(rows[r], headers)>> \o RecordsFrom(rows, r + 1, headers)

\* _extract_data_rows
ExtractDataRows(t, headers) == RecordsFrom(DataRows(t), 1, headers)

\* The tables the extractor is exercised on.
RAW_A == <<32, 65, 10>>   \* ' A\n', cleaned 'A'
RAW_CANDIDATE == <<10, 32, 54980, 48372, 51088, 48324, 32, 10, 32, 32, 46301, 54364, 49688, 32>>  \* the label with line breaks and runs of spaces
FirstRowTexts == {RAW_A, RAW_CANDIDATE}

MaxFirstRow == 2     \* cells in the first header row
MaxSecondRow == 2    \* cells in the second header row
MaxCells == 3        \* cells in a data row
Colspans == {1, 2}
Rowspans == {1, 2}

Cell(text, colspan, rowspan) == [text |-> text, colspan |-> colspan, rowspan |-> rowspan]

FirstRowCells == {Cell(t, c, r) : t \in FirstRowTexts, c \in Colspans, r \in Rowspans}

\* the k-th cell of the second header row: 'c1', 'c2', ... with stray white space
SecondRowCell(k) == Cell(<<99>> \o Decimal(k) \o <<32>>, 1, 1)

\* the k-th cell of a data row: 'v1', 'v2', ... with stray white space
DataCell(k) == Cell(<<9, 118>> \o Decimal(k), 1, 1)

SeqsUpTo(S, n) == UNION {[1..k -> S] : k \in 0..n}

\* one or two header rows
SampleHeaderRows ==
    {<<first>> : first \in SeqsUpTo(FirstRowCells, MaxFirstRow)}
    \cup {<<first, [k \in 1..n |-> SecondRowCell(k)]>> :
              first \in SeqsUpTo(FirstRowCells, MaxFirstRow), n \in 0..MaxSecondRow}

SampleDataRow == {[k \in 1..n |-> DataCell(k)] : n \in 0..MaxCells}

\* the header rows in thead or not, no data row or one, in tbody or not
SampleTables ==
    [thead : BOOLEAN, tbody : BOOLEAN,
     hrows : SampleHeaderRows, drows : SeqsUpTo(SampleDataRow, 1)]

ParserIdle ==
    /\ p_table = [thead |-> FALSE, tbody |-> FALSE, hrows |-> <<>>, drows |-> <<>>]
    /\ p_pc = "table"
    /\ p_headers = <<>>
    /\ p_records = <<>>

ParserInputs ==
    /\ p_table \in SampleTables
    /\ p_pc = "table"
    /\ p_headers = <<>>
    /\ p_records = <<>>

\* parse_html_file line 58
ParseHeaders ==
    /\ p_pc = "table"
    /\ p_headers' = ExtractHeaders(p_table)
    /\ p_pc' = "headers"
    /\ UNCHANGED <<p_table, p_records>>
    /\ UNCHANGED notParserVars

\* parse_html_file line 62
ParseDataRows ==
    /\ p_pc = "headers"
    /\ p_records' = ExtractDataRows(p_table, p_headers)
    /\ p_pc' = "rows"
    /\ UNCHANGED <<p_table, p_headers>>
    /\ UNCHANGED notParserVars

ParserNext == ParseHeaders \/ ParseDataRows

-----------------------------------------------------------------------------
(* The crawl: what one whole call of _make_request_with_retry amounts to.   *)

\* The exceptions (classes below Exception) the crawl meets.
Exceptions ==
    {"ElectionCrawlerError", "RequestException", "ValueError", "AttributeError",
     "KeyError", "TypeError", "OSError"}

\* the outcomes of the MAX_RETRIES transport invocations a call can make: the
\* first k time out, the others succeed
AttemptOutcomes ==
    { [i \in 1..MAX_RETRIES |-> IF i <= k THEN "timeout" ELSE "ok"] : k \in 0..MAX_RETRIES }

\* lines 132-151 run to the end: "response" when some attempt succeeds before
\* the attempts are exhausted, else the exception raised
RECURSIVE RetryLoop(_, _)
RetryLoop(outs, attempt) ==
    IF attempt >= MAX_RETRIES THEN "ElectionCrawlerError"
    ELSE IF outs[attempt + 1] = "ok" THEN "response"
    ELSE IF IsLastAttempt(attempt) THEN "ElectionCrawlerError"
    ELSE RetryLoop(outs, attempt + 1)

MakeRequestWithRetry(outs) == RetryLoop(outs, 0)

-----------------------------------------------------------------------------
(* LocationDirectory: get_city_town_codes, get_town_codes_for_city *)

NO_SELECTION == "-1"

\* lines 170-173: the option values of select#cityCode that are kept
RECURSIVE KeepOptions(_)
KeepOptions(values) ==
    IF values = <<>> THEN <<>>
    ELSE IF Head(values) # "" /\ Head(values) # NO_SELECTION
         THEN <<Head(values)>> \o KeepOptions(Tail(values))
         ELSE KeepOptions(Tail(values))

\* the entry page: the option values of its city select, in order
SamplePages == { <<"-1", "", "11", "26">>, <<"-1", "11">>, <<"-1">> }

\* One entry of the town list.  isDict: the entry is a JSON object; hasCode,
\* hasName: it has the key.
Entry(code, name) ==
    [isDict |-> TRUE, hasCode |-> TRUE, CODE |-> code, hasName |-> TRUE, NAME |-> name]
EntryNoName(code) ==
    [isDict |-> TRUE, hasCode |-> TRUE, CODE |-> code, hasName |-> FALSE, NAME |-> ""]
EntryString == [isDict |-> FALSE, hasCode |-> FALSE, CODE |-> "", hasName |-> FALSE, NAME |-> ""]

\* The body of the lookup response.  shape: "invalid" (not JSON), "array" (a
\* bare array of entries), "envelope" ({jsonResult: {body: [...]}}), "object"
\* (an object without jsonResult, its keys in items), "null_result"
\* ({jsonResult: null}), "number" (a JSON number).
Payload(shape, items) == [shape |-> shape, items |-> items]

SamplePayloads ==
    { Payload("array", <<Entry("-1", "all"), Entry("01", "a")>>),
      Payload("envelope", <<Entry("-1", "all"), Entry("01", "a")>>),
      Payload("array", <<>>),
      Payload("invalid", <<>>),
      Payload("array", <<EntryNoName("01")>>),
      Payload("object", <<EntryString>>),
      Payload("null_result", <<>>) }

\* the regions of SamplePages
SampleCities == {"11", "26"}

\* a region with two sub-regions
TwoTownPayloads == { Payload("array", <<Entry("-1", "all"), Entry("02", "b"), Entry("01", "a")>>) }

Returned(value) == [exc |-> "none", value |-> value]
Raised(exc) == [exc |-> exc, value |-> <<>>]

\* lines 216-219, from entry i on: item.get('CODE') needs a dict, item['CODE']
\* and item['NAME'] need the keys
RECURSIVE CollectTowns(_, _, _)
CollectTowns(town_data, i, town_codes) ==
    IF i > Len(town_data) THEN Returned(town_codes)
    ELSE LET item == town_data[i] IN
         IF ~item.isDict THEN Raised("AttributeError")
         ELSE IF item.hasCode /\ item.CODE = NO_SELECTION
              THEN CollectTowns(town_data, i + 1, town_codes)
         ELSE IF ~item.hasCode \/ ~item.hasName THEN Raised("KeyError")
         ELSE CollectTowns(town_data, i + 1,
                           Append(town_codes, [code |-> item.CODE, name |-> item.NAME]))

\* what iterating over response_data gives: the entries of an array, the keys
\* (strings) of an object
TopLevel(payload) ==
    IF payload.shape = "envelope" THEN <<EntryString>> ELSE payload.items

\* a lookup that knows the bare array only
TownData_NoEnvelope(payload) == TopLevel(payload)

\* lines 209-213: response_data['jsonResult']['body'] when both keys are there,
\* else response_data itself
TownData(payload) ==
    IF payload.shape = "envelope" THEN payload.items ELSE TopLevel(payload)

\* lines 206-221: the try block
TownCodesTry(outs, payload) ==
    IF MakeRequestWithRetry(outs) # "response" THEN Raised(MakeRequestWithRetry(outs))
    ELSE IF payload.shape = "invalid" THEN Raised("ValueError")
    ELSE IF payload.shape = "number" THEN Raised("TypeError")
    ELSE IF payload.shape = "null_result" THEN Raised("TypeError")
    ELSE CollectTowns(TownData(payload), 1, <<>>)

\* line 223: except (requests.exceptions.RequestException, ValueError)
CaughtByLookup(exc) == exc \in {"RequestException", "ValueError"}

\* get_town_codes_for_city
GetTownCodesForCity(outs, payload) ==
    LET r == TownCodesTry(outs, payload) IN
    IF r.exc # "none" /\ CaughtByLookup(r.exc) THEN Returned(<<>>) ELSE r

\* The responses the lookup alone is exercised on: the samples, and every list
\* of up to MaxEntries entries as a bare array and in the envelope.
MaxEntries == 3

SampleEntries == {Entry("-1", "all"), Entry("01", "a"), Entry("02", "b")}

LookupPayloads ==
    SamplePayloads
    \cup {Payload(shape, items) :
              shape \in {"array", "envelope"},
              items \in UNION {[1..k -> SampleEntries] : k \in 0..MaxEntries}}

\* the call has not ended
Pending == [exc |-> "pending", value |-> <<>>]

LookupIdle ==
    /\ l_outs = <<>>
    /\ l_payload = Payload("array", <<>>)
    /\ l_result = Pending

LookupInputs ==
    /\ l_outs \in AttemptOutcomes
    /\ l_payload \in LookupPayloads
    /\ l_result = Pending

\* one call of get_town_codes_for_city(city_code)
LookupCall ==
    /\ l_result = Pending
    /\ l_result' = GetTownCodesForCity(l_outs, l_payload)
    /\ UNCHANGED <<l_outs, l_payload>>
    /\ UNCHANGED notLookupVars

LookupNext == LookupCall

-----------------------------------------------------------------------------
(* File names.  A name is the sequence of its parts between the dots, each   *)
(* part a token <<text, region, sub-region, timestamp>>.                     *)

Tok(text) == <<text, "", "", 0>>

\* f"election_report_{city_code}_{town_code}_{timestamp}"
FallbackStem(city_code, town_code, timestamp) ==
    <<"election_report", city_code, town_code, timestamp>>

\* a splitext that takes nothing off
SplitextRoot_Keep(name) == name

\* os.path.splitext(name)[0]: the last part goes unless only empty parts
\* (leading dots) stand before it
SplitextRoot(name) ==
    IF Len(name) >= 2 /\ \E k \in 1..(Len(name) - 1) : name[k] # Tok("")
    THEN SubSeq(name, 1, Len(name) - 1)
    ELSE name

\* PurePath.suffix is not empty
HasSuffix(name) ==
    /\ Len(name) >= 2
    /\ name[Len(name)] # Tok("")
    /\ ~(Len(name) = 2 /\ name[1] = Tok(""))

\* PurePath.with_suffix(''), with_suffix('.' + ext)
WithoutSuffix(name) == IF HasSuffix(name) THEN SubSeq(name, 1, Len(name) - 1) ELSE name
WithSuffix(name, ext) == Append(WithoutSuffix(name), Tok(ext))

MIN_FILE_SIZE == 512

\* a size check that passes every file
ValidateFileSize_Any(dir, filepath) == TRUE

\* _validate_file_size
ValidateFileSize(dir, filepath) == ~(dir[filepath].size < MIN_FILE_SIZE)

alternative_extensions == <<"html", "xls", "xlsx">>

\* lines 272-278, from alternative i on: the first alternative that exists decides
RECURSIVE CheckAlternatives(_, _, _)
CheckAlternatives(dir, base_path, i) ==
    IF i > Len(alternative_extensions) THEN FALSE
    ELSE LET alt_filepath == WithSuffix(base_path, alternative_extensions[i]) IN
         IF alt_filepath \in DOMAIN dir
         THEN ValidateFileSize(dir, alt_filepath)
         ELSE CheckAlternatives(dir, base_path, i + 1)

\* a check that never finds a file
FileExistsAndValid_Never(dir, filepath) == FALSE

\* _file_exists_and_valid; dir maps the names in the download directory to the files
FileExistsAndValid(dir, filepath) ==
    IF filepath \in DOMAIN dir
    THEN ValidateFileSize(dir, filepath)
    ELSE CheckAlternatives(dir, WithoutSuffix(filepath), 1)

\* every download named .html
ExtensionFor_Html(content_type) == "html"

\* lines 452-461: the extension for a detected content type
ExtensionFor(content_type) == IF content_type = "excel" THEN "xls" ELSE "html"

\* _get_filename_from_response.  resp.disposition is the file name the
\* Content-Disposition header carries, <<>> when there is none.
GetFilenameFromResponse(resp, city_code, town_code, timestamp) ==
    LET content_type == DetectContentType(resp.header, resp.body)
        from_header == IF resp.disposition = <<>> THEN <<>>
                       ELSE SplitextRoot(resp.disposition)
        base_filename == IF from_header = <<>> \/ from_header = <<Tok("")>>
                         THEN <<FallbackStem(city_code, town_code, timestamp)>>
                         ELSE from_header
    IN  Append(base_filename, Tok(ExtensionFor(content_type)))

\* _validate_downloaded_content: the file exists and has at least 512 bytes;
\* the content checks of lines 488-528 only log
ValidateDownloadedContent(dir, filepath) ==
    /\ filepath \in DOMAIN dir
    /\ ~(dir[filepath].size < MIN_FILE_SIZE)

-----------------------------------------------------------------------------
(* _get_filename_from_response on its own, over the Content-Disposition     *)
(* names 'report.xls', 'report.html', 'report', '.xls', 'report.tar.gz',    *)
(* '' and no header at all                                                   *)

SampleDispositions ==
    { <<>>,
      <<Tok("report"), Tok("xls")>>,
      <<Tok("report"), Tok("html")>>,
      <<Tok("report")>>,
      <<Tok(""), Tok("xls")>>,
      <<Tok("report"), Tok("tar"), Tok("gz")>>,
      <<Tok("")>> }

SampleSniffed == {<<>>, MAGIC_OLE2, IND_TABLE, CHUNK_INVALID}

FilenameIdle ==
    /\ f_resp = [header |-> <<>>, body |-> <<>>, disposition |-> <<>>, size |-> 0]
    /\ f_time = 0
    /\ f_filename = <<>>

FilenameInputs ==
    /\ f_resp \in [header : SampleHeaders, body : SampleSniffed,
                    disposition : SampleDispositions, size : {0}]
    /\ f_time \in {0, 1}
    /\ f_filename = <<>>

\* one call of _get_filename_from_response(response, '11', '01')
FilenameCall ==
    /\ f_filename = <<>>
    /\ f_filename' = GetFilenameFromResponse(f_resp, "11", "01", f_time)
    /\ UNCHANGED <<f_resp, f_time>>
    /\ UNCHANGED notFilenameVars

FilenameNext == FilenameCall

-----------------------------------------------------------------------------
(* FetchOrchestrator: crawl_all_locations, _crawl_sequential,               *)
(* _crawl_concurrent, download_excel_for_location                           *)

MaxWorkers == 2   \* max_workers
MaxTime == 1      \* the seconds the clock can advance by

Modes == {"sequential", "concurrent"}
WorkerIds == 1..MaxWorkers

\* What the report endpoint can answer a POST with: the Content-Type header, the
\* first bytes of the body, the Content-Disposition file name (<<>> when the
\* header is absent) and the length of the body.
Response(header, body, disposition, size) ==
    [header |-> header, body |-> body, disposition |-> disposition, size |-> size]

REPORT_XLS == <<Tok("report"), Tok("xls")>>

SampleResponses ==
    { Response(CT_MS_EXCEL, MAGIC_OLE2, <<>>, MIN_FILE_SIZE),
      Response(CT_MS_EXCEL, MAGIC_OLE2, <<>>, MIN_FILE_SIZE - 1),
      Response(CT_MS_EXCEL, MAGIC_OLE2, REPORT_XLS, MIN_FILE_SIZE),
      Response(CT_OCTET, IND_TABLE, <<>>, MIN_FILE_SIZE) }

\* the POST got no response
NoResponse == Response(<<>>, <<>>, <<>>, 0)

\* the sizes a file can be left with when the stream breaks while it is written
PartialSizes(size) == {n \in {0, MIN_FILE_SIZE} : n < size}

NoTask == [city |-> "", town |-> ""]
Task(city, town) == [city |-> city, town |-> town]

\* pc: "idle", "open" (about to open the file), "write", "validate", "count"
\* (about to store a counter of stats), "size" (about to store total_size).
\* prior, sawValid and overwrote record what the thread met: the valid files of
\* the same pair in the directory at its check, a valid file under its own name
\* at its check, a valid file under its own name when it opened it; resp is the
\* response its POST got.
IdleWorker ==
    [pc |-> "idle", task |-> NoTask, path |-> <<>>, resp_size |-> 0, file_size |-> 0,
     counter |-> "", read |-> 0, prior |-> {}, sawValid |-> FALSE, overwrote |-> FALSE,
     resp |-> NoResponse]

NoStats == [downloaded |-> 0, errors |-> 0, skipped |-> 0, total_size |-> 0]

EmptyDir == [f \in {} |-> [size |-> 0, by |-> NoTask]]

\* the file at `path` becomes `file`
DirPut(d, path, file) == [f \in (DOMAIN d) \cup {path} |-> IF f = path THEN file ELSE d[f]]

IsValidFile(d, path) == path \in DOMAIN d /\ d[path].size >= MIN_FILE_SIZE

CrawlIdle ==
    /\ mode = "sequential"
    /\ pc = "start"
    /\ run = "first"
    /\ now = 0
    /\ city_codes = <<>>
    /\ city_idx = 1
    /\ download_tasks = <<>>
    /\ submitted = {}
    /\ workers = [w \in WorkerIds |-> IdleWorker]
    /\ download_dir = EmptyDir
    /\ stats = NoStats
    /\ outcomes = {}
    /\ raised_by = "none"
    /\ lookup_exc = "none"
    /\ printed = <<>>
    /\ exit_code = "none"
    /\ invoked = <<>>
    /\ max_workers = MaxWorkers
    /\ town_pages = [city \in SampleCities |-> SamplePayloads]
    /\ listed = <<>>

\* the program is started, on an empty download directory
CrawlInit ==
    /\ mode \in Modes
    /\ pc = "start"
    /\ run = "first"
    /\ now = 0
    /\ city_codes = <<>>
    /\ city_idx = 1
    /\ download_tasks = <<>>
    /\ submitted = {}
    /\ workers = [w \in WorkerIds |-> IdleWorker]
    /\ download_dir = EmptyDir
    /\ stats = NoStats
    /\ outcomes = {}
    /\ raised_by = "none"
    /\ lookup_exc = "none"
    /\ printed = <<>>
    /\ exit_code = "none"
    /\ invoked = <<>>
    /\ max_workers = MaxWorkers
    /\ town_pages = [city \in SampleCities |-> SamplePayloads]
    /\ listed = <<>>

\* the program is started on an empty download directory, with a pool of any
\* size; a sequential run is explored with up to two sub-regions in region 11
CrawlInitAnyPool ==
    /\ mode \in Modes
    /\ pc = "start"
    /\ run = "first"
    /\ now = 0
    /\ city_codes = <<>>
    /\ city_idx = 1
    /\ download_tasks = <<>>
    /\ submitted = {}
    /\ workers = [w \in WorkerIds |-> IdleWorker]
    /\ download_dir = EmptyDir
    /\ stats = NoStats
    /\ outcomes = {}
    /\ raised_by = "none"
    /\ lookup_exc = "none"
    /\ printed = <<>>
    /\ exit_code = "none"
    /\ invoked = <<>>
    /\ max_workers \in WorkerIds
    /\ town_pages = [city \in SampleCities |->
                         IF mode = "sequential" /\ city = "11"
                         THEN SamplePayloads \cup TwoTownPayloads
                         ELSE SamplePayloads]
    /\ listed = <<>>

\* line 549: get_city_town_codes; any failure is raised as ElectionCrawlerError
\* (line 188), which crawl_all_locations logs and raises again (lines 562-564)
CrawlStart ==
    /\ pc = "start"
    /\ \E outs \in AttemptOutcomes, page \in SamplePages :
          IF MakeRequestWithRetry(outs) = "response"
          THEN /\ city_codes' = KeepOptions(page)
               /\ pc' = "lookup"
               /\ UNCHANGED raised_by
          ELSE /\ pc' = "raised"
               /\ raised_by' = "regions"
               /\ UNCHANGED city_codes
    /\ city_idx' = 1
    /\ UNCHANGED <<max_workers, town_pages, mode, run, now, download_tasks, submitted, workers, download_dir, stats,
                   outcomes, lookup_exc>>
    /\ UNCHANGED <<printed, exit_code, invoked, listed>>
    /\ UNCHANGED notCrawlVars

TasksOf(city, town_codes) == [i \in DOMAIN town_codes |-> Task(city, town_codes[i].code)]

\* lines 571-574 and 591-593: get_town_codes_for_city for the next region.  An
\* exception it lets through leaves the loop and crawl_all_locations (lines 562-564).
Lookup ==
    /\ pc = "lookup"
    /\ city_idx <= Len(city_codes)
    /\ \E outs \in AttemptOutcomes, payload \in town_pages[city_codes[city_idx]] :
          LET r == GetTownCodesForCity(outs, payload)
              tasks == TasksOf(city_codes[city_idx], r.value)
          IN  /\ lookup_exc' = r.exc
              /\ IF r.exc # "none"
                 THEN /\ pc' = "raised"
                      /\ raised_by' = "lookup"
                      /\ UNCHANGED <<city_idx, download_tasks, submitted, listed>>
                 ELSE /\ UNCHANGED raised_by
                      /\ submitted' = submitted \cup {tasks[i] : i \in DOMAIN tasks}
                      /\ listed' = listed \o tasks
                      /\ IF mode = "concurrent"
                         THEN /\ download_tasks' = download_tasks \o tasks
                              /\ city_idx' = city_idx + 1
                              /\ UNCHANGED pc
                         ELSE IF tasks = <<>>
                              THEN /\ city_idx' = city_idx + 1
                                   /\ UNCHANGED <<pc, download_tasks>>
                              ELSE /\ download_tasks' = tasks
                                   /\ pc' = "download"
                                   /\ UNCHANGED city_idx
    /\ UNCHANGED <<max_workers, town_pages, mode, run, now, city_codes, workers, download_dir, stats, outcomes>>
    /\ UNCHANGED <<printed, exit_code, invoked>>
    /\ UNCHANGED notCrawlVars

\* the loop over city_codes has ended: the sequential crawl is over (lines
\* 556-558), the concurrent one submits its tasks to the pool (lines 598-602)
LookupsDone ==
    /\ pc = "lookup"
    /\ city_idx > Len(city_codes)
    /\ pc' = IF mode = "concurrent" THEN "pool" ELSE "done"
    /\ printed' = IF mode = "concurrent" THEN printed ELSE Append(printed, stats)
    /\ UNCHANGED <<max_workers, town_pages, mode, run, now, city_codes, city_idx, download_tasks, submitted, workers,
                   download_dir, stats, outcomes, raised_by, lookup_exc, exit_code, invoked, listed>>
    /\ UNCHANGED notCrawlVars

\* an except clause for the transport's exceptions only
CaughtByDownload_RequestOnly(exc) == exc = "RequestException"

\* line 362: except Exception
CaughtByDownload(exc) == exc \in Exceptions

\* a call that returns True for a download only
ReturnValue_DownloadedOnly(result) == IF result = "downloaded" THEN "True" ELSE "False"

\* lines 341, 356, 360, 365: return True after skipped += 1 and after
\* total_size += file_size, return False after errors += 1
ReturnValue(result) == IF result \in {"downloaded", "skipped"} THEN "True" ELSE "False"

\* the call of thread w ends: it returns True or False; bytes is its file_size
\* (lines 343-349), resp the response it got
Finished(w, result) ==
    /\ outcomes' = outcomes \cup {[task |-> workers[w].task, result |-> result,
                                   prior |-> workers[w].prior # {},
                                   bytes |-> workers[w].file_size,
                                   resp |-> workers[w].resp,
                                   ret |-> ReturnValue(result)]}
    /\ workers' = [workers EXCEPT ![w] = IdleWorker]

\* thread w, whose state is now `me`, met `exc` inside the try block: the except
\* clause reads stats['errors'] to count it; an exception it does not catch leaves
\* download_excel_for_location, and in sequential mode the crawl
Failing(w, me, exc) ==
    IF CaughtByDownload(exc)
    THEN /\ workers' = [workers EXCEPT ![w] =
                            [me EXCEPT !.pc = "count", !.counter = "errors",
                                       !.read = stats.errors]]
         /\ UNCHANGED <<pc, raised_by, outcomes>>
    ELSE /\ workers' = [workers EXCEPT ![w] = IdleWorker]
         /\ outcomes' = outcomes \cup {[task |-> me.task, result |-> "escaped",
                                        prior |-> me.prior # {}, bytes |-> me.file_size,
                                        resp |-> me.resp, ret |-> "raised"]}
         /\ IF mode = "sequential"
            THEN pc' = "raised" /\ raised_by' = "download"
            ELSE UNCHANGED <<pc, raised_by>>

\* a loop that takes the last of the pairs left
NextTask_Last(tasks) == tasks[Len(tasks)]

\* lines 576 and 599-602: the pairs are taken from the front of the list
NextTask(tasks) == Head(tasks)

\* a pool that starts a thread for every task
InPool_Unbounded(w, size) == TRUE

\* line 598: ThreadPoolExecutor(max_workers=max_workers) runs at most max_workers
\* threads
InPool(w, size) == w <= size

\* lines 331-341: a thread takes the next task, POSTs, names the file and checks
\* whether it is there already.  The clock may have advanced since it was last
\* read.  Of the idle threads of the pool, the one with the lowest number takes it.
TaskStart(w) ==
    /\ \/ pc = "download" /\ w = 1
       \/ pc \in {"pool", "draining"} /\ InPool(w, max_workers)
    /\ workers[w].pc = "idle"
    /\ \A v \in WorkerIds : v < w => workers[v].pc # "idle"
    /\ download_tasks # <<>>
    /\ download_tasks' = Tail(download_tasks)
    /\ \E outs \in AttemptOutcomes, resp \in SampleResponses, t \in now..Min(now + 1, MaxTime) :
          LET task == NextTask(download_tasks)
              filename == GetFilenameFromResponse(resp, task.city, task.town, t)
              me == [IdleWorker EXCEPT
                        !.task = task,
                        !.prior = {f \in DOMAIN download_dir :
                                      /\ download_dir[f].by = task
                                      /\ IsValidFile(download_dir, f)}]
          IN  /\ now' = t
              /\ IF MakeRequestWithRetry(outs) # "response"
                 THEN Failing(w, me, MakeRequestWithRetry(outs))
                 ELSE /\ UNCHANGED <<pc, raised_by, outcomes>>
                      /\ workers' = [workers EXCEPT ![w] =
                            IF FileExistsAndValid(download_dir, filename)
                            THEN [me EXCEPT !.pc = "count", !.counter = "skipped",
                                            !.read = stats.skipped, !.path = filename,
                                            !.resp = resp,
                                            !.sawValid = IsValidFile(download_dir, filename)]
                            ELSE [me EXCEPT !.pc = "open", !.path = filename,
                                            !.resp_size = resp.size, !.resp = resp,
                                            !.sawValid = IsValidFile(download_dir, filename)]]
    /\ UNCHANGED <<max_workers, town_pages, mode, run, city_codes, city_idx, submitted, download_dir, stats, lookup_exc>>
    /\ invoked' = Append(invoked, NextTask(download_tasks))
    /\ UNCHANGED <<printed, exit_code, listed>>
    /\ UNCHANGED notCrawlVars

\* line 345: open(filepath, 'wb') creates the file or empties it
TaskOpen(w) ==
    /\ workers[w].pc = "open"
    /\ download_dir' = DirPut(download_dir, workers[w].path,
                              [size |-> 0, by |-> workers[w].task])
    /\ workers' = [workers EXCEPT ![w].pc = "write",
                                  ![w].overwrote = IsValidFile(download_dir, workers[w].path)]
    /\ UNCHANGED <<max_workers, town_pages, mode, pc, run, now, city_codes, city_idx, download_tasks, submitted, stats,
                   outcomes, raised_by, lookup_exc>>
    /\ UNCHANGED <<printed, exit_code, invoked, listed>>
    /\ UNCHANGED notCrawlVars

\* lines 346-349: the chunks are written from the start of the file, all of them
\* or, when iter_content raises, some of them
TaskWrite(w) ==
    /\ workers[w].pc = "write"
    /\ \E n \in {workers[w].resp_size} \cup PartialSizes(workers[w].resp_size) :
          LET me == [workers[w] EXCEPT !.file_size = n] IN
          /\ download_dir' = DirPut(download_dir, me.path,
                           [size |-> Max(download_dir[me.path].size, n), by |-> me.task])
          /\ IF n = me.resp_size
             THEN /\ workers' = [workers EXCEPT ![w] = [me EXCEPT !.pc = "validate"]]
                  /\ UNCHANGED <<pc, raised_by, outcomes>>
             ELSE Failing(w, me, "RequestException")
    /\ UNCHANGED <<max_workers, town_pages, mode, run, now, city_codes, city_idx, download_tasks, submitted, stats,
                   lookup_exc>>
    /\ UNCHANGED <<printed, exit_code, invoked, listed>>
    /\ UNCHANGED notCrawlVars

\* lines 352-360: _validate_downloaded_content, then the counter to add to is read
TaskValidate(w) ==
    /\ workers[w].pc = "validate"
    /\ workers' = [workers EXCEPT ![w] =
          IF ValidateDownloadedContent(download_dir, workers[w].path)
          THEN [workers[w] EXCEPT !.pc = "count", !.counter = "downloaded",
                                  !.read = stats.downloaded]
          ELSE [workers[w] EXCEPT !.pc = "count", !.counter = "errors",
                                  !.read = stats.errors]]
    /\ UNCHANGED <<max_workers, town_pages, mode, pc, run, now, city_codes, city_idx, download_tasks, submitted,
                   download_dir, stats, outcomes, raised_by, lookup_exc>>
    /\ UNCHANGED <<printed, exit_code, invoked, listed>>
    /\ UNCHANGED notCrawlVars

\* lines 340, 354, 359, 364: self.stats[counter] += 1 stores what was read plus
\* one; a skipped or failed call returns, a downloaded one reads total_size
TaskCount(w) ==
    /\ workers[w].pc = "count"
    /\ stats' = [stats EXCEPT ![workers[w].counter] = workers[w].read + 1]
    /\ IF workers[w].counter = "downloaded"
       THEN /\ workers' = [workers EXCEPT ![w].pc = "size", ![w].read = stats.total_size]
            /\ UNCHANGED outcomes
       ELSE Finished(w, IF workers[w].counter = "skipped" THEN "skipped" ELSE "failed")
    /\ UNCHANGED <<max_workers, town_pages, mode, pc, run, now, city_codes, city_idx, download_tasks, submitted,
                   download_dir, raised_by, lookup_exc>>
    /\ UNCHANGED <<printed, exit_code, invoked, listed>>
    /\ UNCHANGED notCrawlVars

\* lines 355-356: self.stats['total_size'] += file_size; return True
TaskSize(w) ==
    /\ workers[w].pc = "size"
    /\ stats' = [stats EXCEPT !.total_size = workers[w].read + workers[w].file_size]
    /\ Finished(w, "downloaded")
    /\ UNCHANGED <<max_workers, town_pages, mode, pc, run, now, city_codes, city_idx, download_tasks, submitted,
                   download_dir, raised_by, lookup_exc>>
    /\ UNCHANGED <<printed, exit_code, invoked, listed>>
    /\ UNCHANGED notCrawlVars

\* lines 576-582: the towns of the region are done, the loop goes to the next region
CityDone ==
    /\ pc = "download"
    /\ workers[1].pc = "idle"
    /\ download_tasks = <<>>
    /\ city_idx' = city_idx + 1
    /\ pc' = "lookup"
    /\ UNCHANGED <<max_workers, town_pages, mode, run, now, city_codes, download_tasks, submitted, workers,
                   download_dir, stats, outcomes, raised_by, lookup_exc>>
    /\ UNCHANGED <<printed, exit_code, invoked, listed>>
    /\ UNCHANGED notCrawlVars

\* lines 604-609 and 556-558: every future has completed
PoolDone ==
    /\ pc = "pool"
    /\ download_tasks = <<>>
    /\ \A w \in WorkerIds : workers[w].pc = "idle"
    /\ pc' = "done"
    /\ printed' = Append(printed, stats)
    /\ UNCHANGED <<max_workers, town_pages, mode, run, now, city_codes, city_idx, download_tasks, submitted, workers,
                   download_dir, stats, outcomes, raised_by, lookup_exc, exit_code, invoked, listed>>
    /\ UNCHANGED notCrawlVars

\* KeyboardInterrupt is raised in the main thread.  In a sequential run, and
\* while the regions and sub-regions are looked up, whatever the main thread is
\* doing is abandoned where it stands and the except clause of line 560 is
\* reached.  With the pool open, leaving the with block of line 598 waits for
\* the pool: the tasks submitted so far, queued ones included, are still run by
\* its threads; those not yet submitted never are.
Interrupt ==
    /\ pc \in {"start", "lookup", "download", "pool"}
    /\ IF pc = "pool"
       THEN /\ pc' = "draining"
            /\ \E n \in 0..Len(download_tasks) :
                  download_tasks' = SubSeq(download_tasks, 1, n)
            /\ UNCHANGED workers
       ELSE /\ pc' = "interrupted"
            /\ workers' = [w \in WorkerIds |-> IdleWorker]
            /\ UNCHANGED download_tasks
    /\ UNCHANGED <<max_workers, town_pages, mode, run, now, city_codes, city_idx, submitted, download_dir, stats,
                   outcomes, raised_by, lookup_exc, printed, exit_code, invoked, listed>>
    /\ UNCHANGED notCrawlVars

\* the pool has shut down: KeyboardInterrupt leaves _crawl_concurrent and is
\* caught at line 560
DrainDone ==
    /\ pc = "draining"
    /\ download_tasks = <<>>
    /\ \A w \in WorkerIds : workers[w].pc = "idle"
    /\ pc' = "interrupted"
    /\ UNCHANGED <<max_workers, town_pages, mode, run, now, city_codes, city_idx, download_tasks, submitted, workers,
                   download_dir, stats, outcomes, raised_by, lookup_exc, printed, exit_code,
                   invoked, listed>>
    /\ UNCHANGED notCrawlVars

\* a main that returns 0 for a completed crawl only
ExitCode_CompletedOnly(ended) == IF ended = "done" THEN "0" ELSE "1"

\* lines 661-672: 1 when crawl_all_locations raised an Exception, 0 when it
\* returned, completed or interrupted
ExitCode(ended) == IF ended = "raised" THEN "1" ELSE "0"

\* main returns
MainReturn ==
    /\ pc \in {"done", "interrupted", "raised"}
    /\ exit_code = "none"
    /\ exit_code' = ExitCode(pc)
    /\ UNCHANGED <<max_workers, town_pages, mode, pc, run, now, city_codes, city_idx, download_tasks, submitted, workers,
                   download_dir, stats, outcomes, raised_by, lookup_exc, printed, invoked, listed>>
    /\ UNCHANGED notCrawlVars

\* the program is run again; the files of the earlier runs are still there
NewRun ==
    /\ exit_code # "none"
    /\ run = "first"
    /\ run' = "again"
    /\ mode' \in Modes
    /\ pc' = "start"
    /\ city_codes' = <<>>
    /\ city_idx' = 1
    /\ download_tasks' = <<>>
    /\ submitted' = {}
    /\ workers' = [w \in WorkerIds |-> IdleWorker]
    /\ stats' = NoStats
    /\ outcomes' = {}
    /\ raised_by' = "none"
    /\ lookup_exc' = "none"
    /\ printed' = <<>>
    /\ exit_code' = "none"
    /\ invoked' = <<>>
    /\ listed' = <<>>
    /\ UNCHANGED <<now, download_dir, max_workers, town_pages>>
    /\ UNCHANGED notCrawlVars

\* one run of the program, from main's call of crawl_all_locations to its return
RunStep ==
    \/ CrawlStart
    \/ Lookup
    \/ LookupsDone
    \/ \E w \in WorkerIds : TaskStart(w)
    \/ \E w \in WorkerIds : TaskOpen(w)
    \/ \E w \in WorkerIds : TaskWrite(w)
    \/ \E w \in WorkerIds : TaskValidate(w)
    \/ \E w \in WorkerIds : TaskCount(w)
    \/ \E w \in WorkerIds : TaskSize(w)
    \/ CityDone
    \/ PoolDone
    \/ MainReturn

\* the program run, and run a second time on the directory the first run left
Next == RunStep \/ NewRun

\* one run of the program that the user can interrupt
InterruptibleNext == RunStep \/ Interrupt \/ DrainDone


-----------------------------------------------------------------------------
(* The specifications *)

RetryInit == RetryIdle /\ ClassifyIdle /\ ParserIdle /\ CrawlIdle /\ LookupIdle /\ FilenameIdle

SpecRetry == RetryInit /\ [][RetryNext]_vars

ClassifyInit == RetryIdle /\ ClassifyInputs /\ ParserIdle /\ CrawlIdle /\ LookupIdle /\ FilenameIdle

SpecClassify == ClassifyInit /\ [][ClassifyNext]_vars

ParserInit == RetryIdle /\ ClassifyIdle /\ ParserInputs /\ CrawlIdle /\ LookupIdle /\ FilenameIdle

SpecParser == ParserInit /\ [][ParserNext]_vars

Init == RetryIdle /\ ClassifyIdle /\ ParserIdle /\ CrawlInit /\ LookupIdle /\ FilenameIdle

InterruptibleInit == RetryIdle /\ ClassifyIdle /\ ParserIdle /\ CrawlInitAnyPool /\ LookupIdle /\ FilenameIdle

Spec == Init /\ [][Next]_vars

SpecInterrupt == InterruptibleInit /\ [][InterruptibleNext]_vars

LookupInit == RetryIdle /\ ClassifyIdle /\ ParserIdle /\ CrawlIdle /\ LookupInputs /\ FilenameIdle

SpecLookup == LookupInit /\ [][LookupNext]_vars

FilenameInit ==
    RetryIdle /\ ClassifyIdle /\ ParserIdle /\ CrawlIdle /\ LookupIdle /\ FilenameInputs

SpecFilename == FilenameInit /\ [][FilenameNext]_vars

\* one run to its end: a step that can be taken, by the main thread or by a pool
\* thread, is eventually taken (each HTTP attempt returns or times out, and a
\* runnable thread is scheduled)
SpecTermination == InterruptibleInit /\ [][RunStep]_vars /\ WF_vars(RunStep)

-----------------------------------------------------------------------------
(* Properties of _make_request_with_retry (SpecRetry) *)

RequestIdx == {i \in DOMAIN r_events : r_events[i].ev = "request"}
SleepIdx == {i \in DOMAIN r_events : r_events[i].ev = "sleep"}
RetryEnded == r_pc \in {"returned", "raised"}
AllAttemptsFailed == \A i \in RequestIdx : r_events[i].info \in TransportFailures

\* C1: a call whose every attempt fails invokes the transport exactly 3 times,
\* does not sleep before attempt 1, sleeps once before attempt 2 and once before
\* attempt 3 (so the call did: request, sleep, request, sleep, request), and
\* ends by raising ElectionCrawlerError.
C1_RetryTiming ==
    (RetryEnded /\ AllAttemptsFailed) =>
        /\ r_pc = "raised"
        /\ Cardinality(RequestIdx) = 3
        /\ Cardinality(SleepIdx) = 2
        /\ Len(r_events) = 5
        /\ \A i \in DOMAIN r_events :
              r_events[i].ev = (IF i % 2 = 1 THEN "request" ELSE "sleep")
        /\ \A i \in RequestIdx : r_events[i].attempt = (i - 1) \div 2
        /\ \A i \in SleepIdx :
              /\ r_events[i].attempt = i \div 2
              /\ r_events[i].info \in
                    {RETRY_DELAY * Pow2(i \div 2) * j : j \in JitterHalves}

C1_Witness ==
    /\ r_pc = "raised"
    /\ Len(r_events) = 5
    /\ r_events[1].ev = "request"
    /\ r_events[4].ev = "sleep"

\* C2: the call raises only after MAX_RETRIES failed attempts; a call that
\* returns made k <= MAX_RETRIES attempts of which the last succeeded and the
\* k-1 before it failed, and made no attempt after the successful one.
C2_FailsOnlyWhenExhausted ==
    /\ r_pc = "raised" =>
          /\ Cardinality(RequestIdx) = MAX_RETRIES
          /\ AllAttemptsFailed
    /\ r_pc = "returned" =>
          /\ Len(r_events) > 0
          /\ r_events[Len(r_events)].ev = "request"
          /\ r_events[Len(r_events)].info = "ok"
          /\ Cardinality(RequestIdx) <= MAX_RETRIES
          /\ \A i \in RequestIdx :
                i < Len(r_events) => r_events[i].info \in TransportFailures
    /\ ~RetryEnded =>
          \A i \in RequestIdx : r_events[i].info \in TransportFailures

C2_Witness ==
    /\ r_pc = "returned"
    /\ Cardinality(RequestIdx) = 2
    /\ r_events[1].info \in TransportFailures

-----------------------------------------------------------------------------
(* Properties of _detect_content_type (SpecClassify) *)

Classified == c_result # "none"

OctetStreamZip ==
    /\ Classified
    /\ Lower(c_header) = CT_OCTET
    /\ StartsWith(c_body, MAGIC_ZIP)

\* C6 as stated: a response with Content-Type application/octet-stream whose body
\* begins with PK\x03\x04 is classified 'excel', whatever bytes follow.
C6_AsStated == OctetStreamZip => c_result = "excel"

\* C6, amended: such a response is classified 'excel' when the first 4096 bytes,
\* decoded as UTF-8 with undecodable bytes dropped and lower-cased, contain none
\* of the HTML indicators, and 'html' when they contain one.
C6_ZipUnlessHtmlMarker ==
    OctetStreamZip =>
        LET text == Lower(DecodeIgnore(Take(c_body, SNIFF_TEXT_LEN)))
            marked == \E ind \in html_indicators : Contains(text, ind)
        IN  c_result = (IF marked THEN "html" ELSE "excel")

C6_Witness ==
    /\ OctetStreamZip
    /\ Len(c_body) > Len(MAGIC_ZIP)
    /\ c_result = "excel"

\* the rules of the decision order, on the response that was classified
HtmlMediaType == \E t \in {CT_TEXT_HTML, CT_APP_HTML} : Contains(Lower(c_header), t)
SpreadsheetMediaType == \E t \in {CT_MS_EXCEL, CT_APP_EXCEL} : Contains(Lower(c_header), t)
HtmlMarkers ==
    \E ind \in html_indicators :
        Contains(Lower(DecodeIgnore(Take(c_body, SNIFF_TEXT_LEN))), ind)
SpreadsheetMagic ==
    \E magic \in {MAGIC_OLE2, MAGIC_ZIP} : StartsWith(Take(c_body, SNIFF_MAGIC_LEN), magic)

\* C17: the classification is that of the first rule that matches: an HTML media
\* type in Content-Type gives html whatever the bytes, else a spreadsheet media
\* type gives excel whatever the bytes, else HTML markers in the first 4096 bytes
\* give html, else OLE2 or ZIP magic in the first 8 bytes gives excel, else unknown.
C17_DecisionOrder ==
    Classified =>
        /\ HtmlMediaType => c_result = "html"
        /\ ~HtmlMediaType /\ SpreadsheetMediaType => c_result = "excel"
        /\ ~HtmlMediaType /\ ~SpreadsheetMediaType /\ HtmlMarkers => c_result = "html"
        /\ ~HtmlMediaType /\ ~SpreadsheetMediaType /\ ~HtmlMarkers /\ SpreadsheetMagic =>
               c_result = "excel"
        /\ ~HtmlMediaType /\ ~SpreadsheetMediaType /\ ~HtmlMarkers /\ ~SpreadsheetMagic =>
               c_result = "unknown"

\* a spreadsheet media type won over HTML markers in the body
C17_Witness ==
    /\ Classified
    /\ SpreadsheetMediaType
    /\ HtmlMarkers
    /\ c_result = "excel"

\* s is well-formed UTF-8 from position i on: a strict decode raises nothing
RECURSIVE WellFormedFrom(_, _)
WellFormedFrom(s, i) ==
    \/ i > Len(s)
    \/ LET need == Utf8Need(s[i]) IN
       /\ need # 0
       /\ need = 1 \/ Utf8ValidCont(s, i, 2, need) = need - 1
       /\ WellFormedFrom(s, i + need)

Undecodable == ~WellFormedFrom(Take(c_body, SNIFF_TEXT_LEN), 1)

\* C23: a response without a decisive Content-Type whose first bytes are not
\* valid UTF-8 and hold neither an HTML marker nor a spreadsheet magic number
\* is classified excel (and so named .xls).
C23_UndecodableIsSpreadsheet ==
    /\ Classified
    /\ ~HtmlMediaType /\ ~SpreadsheetMediaType
    /\ Undecodable
    /\ ~HtmlMarkers /\ ~SpreadsheetMagic
    => c_result = "excel" /\ ExtensionFor(c_result) = "xls"

-----------------------------------------------------------------------------
(* Properties of _extract_headers and _extract_data_rows (SpecParser) *)

RECURSIVE SumTo(_, _)
SumTo(f, n) == IF n = 0 THEN 0 ELSE f[n] + SumTo(f, n - 1)

TXT_A == <<65>>        \* 'A'
TXT_C1 == <<99, 49>>   \* 'c1'
TXT_C2 == <<99, 50>>   \* 'c2'

HeadersDone == p_pc # "table"
TwoHeaderRows == Len(HeaderRows(p_table)) >= 2
FirstRow == HeaderRows(p_table)[1]
SecondRowTexts ==
    [k \in DOMAIN HeaderRows(p_table)[2] |-> CleanText(HeaderRows(p_table)[2][k].text)]

C7_Example ==
    <<  <<Cell(RAW_A, 1, 2), Cell(RAW_CANDIDATE, 2, 1)>>,
        <<SecondRowCell(1), SecondRowCell(2)>>  >>

\* C7: with two header rows the header sequence is, for the first-row cells in
\* order, the cell's text once when its rowspan is 2, the next k second-row
\* cells not yet consumed (all that are left when fewer than k are) when it is
\* the candidate label with colspan k, and the cell's text otherwise; then the
\* second-row cells that were not consumed.  [A(rowspan 2), label(colspan 2)]
\* over [c1, c2] gives [A, c1, c2].
C7_HeaderReconstruction ==
    (HeadersDone /\ TwoHeaderRows) =>
        LET first == FirstRow
            n == Len(first)
            second == SecondRowTexts \o <<>>
            text == [i \in 1..n |-> CleanText(first[i].text)] \o <<>>
            \* the first-row cells that are handed second-row cells
            gives == [i \in 1..n |-> first[i].rowspan # 2 /\ text[i] = CANDIDATE_LABEL] \o <<>>
            \* the number of second-row cells used up before first-row cell i
            before == [i \in 1..(n + 1) |->
                Min(Len(second),
                    SumTo([j \in 1..(i - 1) |-> IF gives[j] THEN first[j].colspan ELSE 0],
                          i - 1))] \o <<>>
            \* what first-row cell i contributes to the header sequence, and where
            segment == [i \in 1..n |->
                IF gives[i] THEN SubSeq(second, before[i] + 1, before[i + 1])
                ELSE <<text[i]>>] \o <<>>
            start == [i \in 1..(n + 1) |->
                SumTo([j \in 1..(i - 1) |-> Len(segment[j])], i - 1)] \o <<>>
            rest == Len(second) - before[n + 1]
        IN  /\ Len(p_headers) = start[n + 1] + rest
            /\ \A i \in 1..n :
                  SubSeq(p_headers, start[i] + 1, start[i] + Len(segment[i])) = segment[i]
            /\ SubSeq(p_headers, start[n + 1] + 1, Len(p_headers))
                  = SubSeq(second, before[n + 1] + 1, Len(second))
            /\ \A i \in 1..n : first[i].rowspan = 2 => segment[i] = <<text[i]>>
            /\ p_table.hrows = C7_Example /\ p_table.thead
                  => p_headers = <<TXT_A, TXT_C1, TXT_C2>>

C7_Witness ==
    /\ HeadersDone
    /\ p_table.hrows = C7_Example
    /\ p_table.thead
    /\ p_headers = <<TXT_A, TXT_C1, TXT_C2>>

\* the rows _extract_data_rows makes records of, and their cleaned cell texts
RecordedRows == SelectSeq(DataRows(p_table), LAMBDA row : Len(row) > 0)
CellText(r, i) == CleanText(RecordedRows[r][i].text)
HeaderSet == {p_headers[i] : i \in DOMAIN p_headers}
HeadersDistinct == \A i, j \in DOMAIN p_headers : p_headers[i] = p_headers[j] => i = j
RowsDone == p_pc = "rows"

\* one record per row with cells, each holding every header as a key
AllHeadersPresent ==
    /\ Len(p_records) = Len(RecordedRows)
    /\ \A r \in DOMAIN p_records : HeaderSet \subseteq DOMAIN p_records[r]

\* C8 as stated: every record has every header as a key, and a row with fewer
\* cells than headers maps the first c headers to its cell texts by position
\* and every remaining header to the empty string.
C8_AsStated ==
    RowsDone =>
        /\ AllHeadersPresent
        /\ \A r \in DOMAIN p_records :
              LET c == Len(RecordedRows[r]) IN
              c < Len(p_headers) =>
                  /\ \A i \in 1..c : p_records[r][p_headers[i]] = CellText(r, i)
                  /\ \A i \in (c + 1)..Len(p_headers) : p_records[r][p_headers[i]] = <<>>

\* C8, amended: every record has every header as a key; a row with c cells,
\* c less than the number of headers, maps each header to the text of the last
\* of its first c cells that stands under that header and to the empty string
\* when there is none, which for pairwise distinct headers is the first c headers
\* to the cell texts by position and the remaining headers to the empty string.
C8_RaggedRow ==
    RowsDone =>
        /\ AllHeadersPresent
        /\ \A r \in DOMAIN p_records :
              LET c == Len(RecordedRows[r]) IN
              c < Len(p_headers) =>
                  /\ DOMAIN p_records[r] = HeaderSet
                  /\ \A h \in HeaderSet :
                        LET under == {i \in 1..c : p_headers[i] = h} IN
                        p_records[r][h] =
                            (IF under = {} THEN <<>>
                             ELSE CellText(r, CHOOSE i \in under : \A j \in under : j <= i))
                  /\ HeadersDistinct =>
                        /\ \A i \in 1..c : p_records[r][p_headers[i]] = CellText(r, i)
                        /\ \A i \in (c + 1)..Len(p_headers) :
                              p_records[r][p_headers[i]] = <<>>

C8_Witness ==
    /\ RowsDone
    /\ Len(p_headers) = 3
    /\ HeadersDistinct
    /\ Len(p_records) = 1
    /\ Len(RecordedRows[1]) = 2
    /\ p_records[1][p_headers[1]] = <<118, 49>>
    /\ p_records[1][p_headers[2]] = <<118, 50>>
    /\ p_records[1][p_headers[3]] = <<>>

\* the number of leaf columns under the first header row
LeafColumns == SumTo([i \in DOMAIN FirstRow |-> FirstRow[i].colspan], Len(FirstRow))

\* a thead of two rows whose spans fit: a cell over both rows spans one column,
\* and the second row has one cell for every column under a rowspan-1 cell
ProperTwoRowHeader ==
    /\ p_table.thead
    /\ Len(p_table.hrows) = 2
    /\ \A i \in DOMAIN FirstRow : FirstRow[i].rowspan = 2 => FirstRow[i].colspan = 1
    /\ Len(p_table.hrows[2]) =
          SumTo([i \in DOMAIN FirstRow |->
                    IF FirstRow[i].rowspan = 2 THEN 0 ELSE FirstRow[i].colspan],
                Len(FirstRow))

\* C19: for a two-row header the header sequence has as many entries as the
\* table has leaf columns, the sum of the colspans of the first-row cells,
\* whatever the labels of the rowspan-1 cells are.
C19_HeaderCountIsLeafColumns ==
    HeadersDone /\ ProperTwoRowHeader => Len(p_headers) = LeafColumns

\* the synthetic key of the cell at zero-based position i: 'Extra_Column_' and
\* the decimal digits of i
SyntheticKey(i) == <<69, 120, 116, 114, 97, 95, 67, 111, 108, 117, 109, 110, 95>> \o Decimal(i)

\* C20 as stated: a row with more cells than headers loses no cell: the first h
\* cells are stored under the headers by position, the cell at zero-based
\* position i >= h under Extra_Column_{i}.
C20_AsStated ==
    RowsDone =>
        \A r \in DOMAIN p_records :
            LET c == Len(RecordedRows[r])
                h == Len(p_headers)
            IN  c > h =>
                    /\ \A n \in 1..h : p_records[r][p_headers[n]] = CellText(r, n)
                    /\ \A i \in h..(c - 1) :
                          /\ SyntheticKey(i) \in DOMAIN p_records[r]
                          /\ p_records[r][SyntheticKey(i)] = CellText(r, i + 1)

\* C20, amended: in a row with c cells, c more than the h headers, the cell at
\* zero-based position i >= h is stored under Extra_Column_{i}, and each header
\* holds the text of the last of the first h cells that stands under it; when
\* the headers are pairwise distinct that is the first h cells by position,
\* the record has c keys and no cell is lost.
C20_ExtraCells ==
    RowsDone =>
        \A r \in DOMAIN p_records :
            LET c == Len(RecordedRows[r])
                h == Len(p_headers)
            IN  c > h =>
                    /\ DOMAIN p_records[r] = HeaderSet \cup {SyntheticKey(i) : i \in h..(c - 1)}
                    /\ \A i \in h..(c - 1) : p_records[r][SyntheticKey(i)] = CellText(r, i + 1)
                    /\ \A k \in HeaderSet :
                          LET under == {n \in 1..h : p_headers[n] = k} IN
                          p_records[r][k] = CellText(r, CHOOSE n \in under : \A j \in under : j <= n)
                    /\ HeadersDistinct =>
                          /\ \A n \in 1..h : p_records[r][p_headers[n]] = CellText(r, n)
                          /\ Cardinality(DOMAIN p_records[r]) = c

\* two distinct headers, three cells: the third is kept as Extra_Column_2
C20_Witness ==
    /\ RowsDone
    /\ Len(p_headers) = 2
    /\ HeadersDistinct
    /\ Len(p_records) = 1
    /\ Len(RecordedRows[1]) = 3
    /\ p_records[1][p_headers[1]] = <<118, 49>>
    /\ p_records[1][p_headers[2]] = <<118, 50>>
    /\ p_records[1][<<69, 120, 116, 114, 97, 95, 67, 111, 108, 117, 109, 110, 95, 50>>] = <<118, 51>>

\* the number of rows _extract_headers took the headers from
UsedAsHeader == IF Len(HeaderRows(p_table)) >= 2 THEN 2 ELSE 1

\* the rows of the table after those, in document order
RowsAfterHeaders == Drop(AllRows(p_table), UsedAsHeader)

\* C22: the records are those of the rows after the header rows that have a
\* cell, one each and in document order, and no row the headers were taken from
\* gives a record; with and without thead and tbody, for one and two header rows.
C22_DataRowsAfterHeaders ==
    RowsDone =>
        p_records = RecordsFrom(RowsAfterHeaders, 1, p_headers)

-----------------------------------------------------------------------------
(* Properties of the crawl (Spec) *)

\* C3: get_town_codes_for_city never raises: whatever the transport and the
\* response do, the lookup ends by returning a list (no exception leaves it).
C3_LookupNeverRaises == lookup_exc = "none"

\* C10: only the failure to list the regions is fatal: crawl_all_locations
\* raises for no other reason, in particular not when a sub-region lookup fails.
C10_OnlyRegionListingFatal == pc = "raised" => raised_by = "regions"

\* the call thread w is in has got its response and decided whether to write
Fetching(w) == workers[w].pc \in {"open", "write", "validate", "size"}

\* both names are fallback names of the same pair with the same extension
SameFallbackName(f, g) ==
    /\ Len(f) = 2 /\ Len(g) = 2
    /\ f[1][1] = "election_report" /\ g[1][1] = "election_report"
    /\ f[1][2] = g[1][2] /\ f[1][3] = g[1][3]
    /\ f[2] = g[2]

\* C4: a call for a pair of which the directory holds a valid file written by
\* an earlier fetch of the same pair writes no file and is not counted as
\* downloaded; here for the fallback name: the earlier fetch and this one were
\* both named election_report_{city}_{town}_{timestamp} with the same extension.
C4_IdempotentSkip ==
    \A w \in WorkerIds :
        (\E f \in workers[w].prior : SameFallbackName(f, workers[w].path)) =>
            /\ ~Fetching(w)
            /\ workers[w].counter # "downloaded"

\* C5, as stated: no task, in either mode, opens for writing a path that holds
\* a file of at least 512 bytes at that moment.
C5_AsStated == \A w \in WorkerIds : ~workers[w].overwrote

\* C5: a task that opens a path holding a valid file runs in concurrent mode and
\* did not find that file when it checked: the file was completed by another
\* task between the check and the open.  In sequential mode, and for a file the
\* task found at its check, no valid file is ever opened for writing.
C5_NoOverwriteOfFoundValid ==
    \A w \in WorkerIds :
        workers[w].overwrote => (mode = "concurrent" /\ ~workers[w].sawValid)

\* a task resolved to a name under which a valid file lay and left it alone
C5_Witness ==
    \E w \in WorkerIds :
        /\ workers[w].sawValid
        /\ workers[w].pc = "count"
        /\ workers[w].counter = "skipped"
        /\ IsValidFile(download_dir, workers[w].path)

Processed == {o.task : o \in outcomes}
Queued == {download_tasks[i] : i \in DOMAIN download_tasks}
InFlight == {workers[w].task : w \in {v \in WorkerIds : workers[v].pc # "idle"}}
FailedOutcomes == {o \in outcomes : o.result = "failed"}
Interrupted == pc \in {"draining", "interrupted"}

Exited == exit_code # "none"

\* C11: a run the user interrupted ends with main returning 0 and with the
\* statistics accumulated so far printed by _print_final_stats.
C11_InterruptPrintsStats ==
    Exited /\ pc = "interrupted" => exit_code = "0" /\ printed # <<>>

\* C16: main returns 1 exactly when crawl_all_locations raised, and 0 when it
\* returned, be it interrupted or completed with tasks that failed.
C16_ExitCode ==
    Exited =>
        /\ exit_code \in {"0", "1"}
        /\ exit_code = "1" <=> raised_by # "none"
        /\ pc = "interrupted" => exit_code = "0"
        /\ pc = "done" => exit_code = "0"

\* a completed run in which a task failed: main returned 0
C16_Witness ==
    /\ Exited
    /\ pc = "done"
    /\ FailedOutcomes # {}
    /\ stats.errors >= 1
    /\ exit_code = "0"

RECURSIVE BytesOf(_)
BytesOf(os) ==
    IF os = {} THEN 0
    ELSE LET o == CHOOSE x \in os : TRUE IN o.bytes + BytesOf(os \ {o})

DownloadedOutcomes == {o \in outcomes : o.result = "downloaded"}

\* C12: once every task of a concurrent run has completed, downloaded + skipped
\* + errors is the number of tasks submitted and total_size is the sum of the
\* bytes of the tasks counted as downloaded: no increment is lost.
C12_NoLostUpdate ==
    pc = "done" /\ mode = "concurrent" =>
        /\ stats.downloaded + stats.skipped + stats.errors = Cardinality(submitted)
        /\ stats.total_size = BytesOf(DownloadedOutcomes)

\* Content-Type application/vnd.ms-excel, no Content-Disposition, a body of
\* MIN_FILE_SIZE bytes that starts with the OLE2 signature
GoodResponse == Response(CT_MS_EXCEL, MAGIC_OLE2, <<>>, MIN_FILE_SIZE)

\* the run was over one region with one sub-region, the download directory was
\* empty when it started, and the only POST got GoodResponse, its body whole
SingleGoodDownload ==
    /\ pc = "done"
    /\ run = "first"
    /\ Len(city_codes) = 1
    /\ Cardinality(submitted) = 1
    /\ \A o \in outcomes : o.resp = GoodResponse /\ o.bytes = o.resp.size

\* C13: a run over one region with one sub-region, on an empty directory, whose
\* POST is answered with GoodResponse writes exactly one file, named
\* election_report_{region}_{sub-region}_{ts}.xls and holding the bytes of the
\* response, and ends with downloaded = 1, errors = 0, skipped = 0.
C13_EndToEnd ==
    SingleGoodDownload =>
        /\ \E task \in submitted, ts \in 0..MaxTime :
              LET name == <<FallbackStem(task.city, task.town, ts), Tok("xls")>> IN
              /\ DOMAIN download_dir = {name}
              /\ download_dir[name] = [size |-> GoodResponse.size, by |-> task]
              /\ outcomes = {[task |-> task, result |-> "downloaded", prior |-> FALSE,
                              bytes |-> GoodResponse.size, resp |-> GoodResponse,
                              ret |-> "True"]}
        /\ stats.downloaded = 1
        /\ stats.errors = 0
        /\ stats.skipped = 0
        /\ stats.total_size = GoodResponse.size
        /\ printed = <<stats>>

\* region 11 with the sub-region 01, downloaded by a pool of threads
C13_Witness ==
    /\ SingleGoodDownload
    /\ mode = "concurrent"
    /\ submitted = {Task("11", "01")}
    /\ stats.downloaded = 1
    /\ <<FallbackStem("11", "01", 1), Tok("xls")>> \in DOMAIN download_dir

TooSmall(f) == f \in DOMAIN download_dir /\ download_dir[f].size < MIN_FILE_SIZE

\* the files that differ from f in the extension only and are in the directory
Siblings(f) ==
    {g \in DOMAIN download_dir :
        g # f /\ \E i \in DOMAIN alternative_extensions :
                    g = WithSuffix(f, alternative_extensions[i])}

\* thread w takes a task in this step and gets a response to its POST
Checks(w) == workers[w].pc = "idle" /\ workers'[w].pc \in {"open", "count"} /\ workers'[w].path # <<>>

\* C14: a file of less than 512 bytes is never valid.  Neither check returns
\* True for it; a task whose target is such a file, or whose target is absent
\* while the siblings with an alternative extension are such files, is not
\* skipped: it goes on to open the target for writing; and a download that
\* left such a file is counted as an error.
C14_SmallNeverValid ==
    [][ /\ \A f \in DOMAIN download_dir :
              TooSmall(f) => /\ ~FileExistsAndValid(download_dir, f)
                             /\ ~ValidateDownloadedContent(download_dir, f)
        /\ \A w \in WorkerIds :
              /\ Checks(w) =>
                    LET f == workers'[w].path IN
                    \/ TooSmall(f)
                    \/ /\ f \notin DOMAIN download_dir
                       /\ Siblings(f) # {}
                       /\ \A g \in Siblings(f) : TooSmall(g)
                    => workers'[w].pc = "open"
              /\ /\ workers[w].pc = "validate"
                 /\ workers'[w].pc = "count"
                 /\ TooSmall(workers[w].path)
                 => workers'[w].counter = "errors"
      ]_vars

\* a second run meets the 511 bytes an earlier run left under the name of its
\* target, and is about to write the file again
C14_Witness ==
    /\ run = "again"
    /\ mode = "sequential"
    /\ workers[1].pc = "open"
    /\ workers[1].path = <<FallbackStem("11", "01", 0), Tok("xls")>>
    /\ workers[1].path \in DOMAIN download_dir
    /\ download_dir[workers[1].path].size = MIN_FILE_SIZE - 1

\* the calls of download_excel_for_location for the pair, so far in this run
Times(task) == Cardinality({i \in DOMAIN invoked : invoked[i] = task})

\* C15: no pair is handed to download_excel_for_location twice, and when a run
\* that listed its regions has ended, each pair the lookups returned has been
\* handed to it exactly once, in both modes.
C15_ConsumedExactlyOnce ==
    /\ \A task \in submitted : Times(task) <= 1
    /\ Exited /\ ~Interrupted /\ raised_by # "regions" =>
           \A task \in submitted : Times(task) = 1

\* C21: once the interrupt has been received no task begins its download, in
\* sequential mode and, in concurrent mode, for the tasks that are queued in the
\* pool; and the files written so far stay in the directory.
C21_NoNewWorkAfterInterrupt ==
    [][ Interrupted =>
           /\ invoked' = invoked
           /\ DOMAIN download_dir \subseteq DOMAIN download_dir'
      ]_vars

\* thread w has written the whole body to its file and is about to count the call
WroteFile(w) ==
    /\ workers[w].pc = "count"
    /\ workers[w].counter \in {"downloaded", "errors"}
    /\ workers[w].path # <<>>
    /\ workers[w].resp_size > 0
    /\ workers[w].file_size = workers[w].resp_size

\* C24: a written file is counted as downloaded exactly when it exists and has
\* at least 512 bytes; one of less than 512 bytes is counted as a failed
\* download, errors + 1 with downloaded and total_size unchanged, and is not
\* skipped by a later call that finds it.
C24_PostWriteValidation ==
    [][ \A w \in WorkerIds :
          /\ workers[w].pc = "validate" /\ workers'[w].pc = "count" =>
                /\ workers'[w].counter = "downloaded"
                       <=> IsValidFile(download_dir, workers[w].path)
                /\ workers'[w].counter \in {"downloaded", "errors"}
          /\ WroteFile(w) /\ workers'[w].pc # "count" =>
                IF workers[w].counter = "downloaded"
                THEN stats' = [stats EXCEPT !.downloaded = @ + 1]
                ELSE stats' = [stats EXCEPT !.errors = @ + 1]
          /\ Checks(w) /\ TooSmall(workers'[w].path) => workers'[w].pc = "open"
      ]_vars

-----------------------------------------------------------------------------
(* Properties of get_town_codes_for_city (SpecLookup) *)

LookupDone == l_result # Pending

\* the GET got a response and the body is a list of {CODE, NAME} entries, as a
\* bare array or in the envelope
ListResponse ==
    /\ \E i \in DOMAIN l_outs : l_outs[i] = "ok"
    /\ l_payload.shape \in {"array", "envelope"}
    /\ \A i \in DOMAIN l_payload.items :
          /\ l_payload.items[i].isDict
          /\ l_payload.items[i].hasCode
          /\ l_payload.items[i].hasName

\* the entries that do not carry the sentinel, in response order
NonSentinel == SelectSeq(l_payload.items, LAMBDA item : item.CODE # "-1")

\* C18: for a bare array and for the envelope alike the lookup returns the
\* entries of the response in order as (CODE, NAME), those whose CODE is '-1'
\* left out; the result depends on the entries only, not on the shape.
C18_BothShapes ==
    LookupDone /\ ListResponse =>
        /\ l_result.exc = "none"
        /\ l_result.value =
              [i \in DOMAIN NonSentinel |->
                  [code |-> NonSentinel[i].CODE, name |-> NonSentinel[i].NAME]]

\* an envelope of three entries, the sentinel in the middle
C18_Witness ==
    /\ LookupDone
    /\ l_payload = Payload("envelope", <<Entry("02", "b"), Entry("-1", "all"), Entry("01", "a")>>)
    /\ l_result.exc = "none"
    /\ l_result.value = <<[code |-> "02", name |-> "b"], [code |-> "01", name |-> "a"]>>

-----------------------------------------------------------------------------
(* Properties of _get_filename_from_response (SpecFilename) *)

FilenameDone == f_filename # <<>>

\* the Content-Disposition name has an extension: a last part after a dot that
\* is not the leading dot of the name
CarriesExtension(name) ==
    /\ Len(name) >= 2
    /\ \E k \in 1..(Len(name) - 1) : name[k] # Tok("")

\* C25: the name returned ends in the extension of the classification, html for
\* html and unknown, xls for excel; an extension the Content-Disposition name
\* carries is taken off before and has no say in it.
C25_ExtensionFromClassifier ==
    FilenameDone =>
        LET content_type == DetectContentType(f_resp.header, f_resp.body)
            ext == IF content_type = "excel" THEN "xls" ELSE "html"
            given == f_resp.disposition
        IN  /\ content_type \in {"html", "excel", "unknown"}
            /\ Len(f_filename) >= 2
            /\ f_filename[Len(f_filename)] = Tok(ext)
            /\ CarriesExtension(given) =>
                   f_filename = Append(SubSeq(given, 1, Len(given) - 1), Tok(ext))

\* 'report.xls' in Content-Disposition, a body that is classified html: 'report.html'
C25_Witness ==
    /\ FilenameDone
    /\ f_resp.disposition = <<Tok("report"), Tok("xls")>>
    /\ DetectContentType(f_resp.header, f_resp.body) = "html"
    /\ f_filename = <<Tok("report"), Tok("html")>>

-----------------------------------------------------------------------------
(* Properties of the order of lookups and downloads (SpecInterrupt) *)

\* the place of a pair's region in the list of regions
RegionOf(task) == CHOOSE i \in DOMAIN city_codes : city_codes[i] = task.city

IsPrefix(s, t) == Len(s) <= Len(t) /\ SubSeq(t, 1, Len(s)) = s

\* the threads inside download_excel_for_location
Running == {w \in WorkerIds : workers[w].pc # "idle"}

\* C26: in concurrent mode no download has started while a lookup is still to be
\* made.  In sequential mode a lookup is made only when every pair listed so far
\* has been downloaded and no call is running, the calls running are for the
\* region the loop is at, and the pairs were taken in the order the lookups
\* listed them: by region, and inside a region as returned.
C26_Ordering ==
    /\ mode = "concurrent" /\ (invoked # <<>> \/ Running # {}) =>
          /\ pc \notin {"start", "lookup"}
          /\ city_idx > Len(city_codes)
    /\ mode = "sequential" =>
          /\ pc = "lookup" =>
                /\ Running = {}
                /\ download_tasks = <<>>
                /\ invoked = listed
          /\ \A w \in Running : workers[w].task.city = city_codes[city_idx]
          /\ IsPrefix(invoked, listed)
          /\ \A i, j \in DOMAIN invoked :
                i < j => RegionOf(invoked[i]) <= RegionOf(invoked[j])

\* a sequential run took 02 then 01 of region 11, as listed, then went on to
\* region 26
C26_Witness ==
    /\ mode = "sequential"
    /\ Len(invoked) = 3
    /\ invoked = listed
    /\ invoked[1] = Task("11", "02")
    /\ invoked[2] = Task("11", "01")
    /\ invoked[3].city = "26"

\* C27: in a concurrent run at most max_workers calls of
\* download_excel_for_location are running at any moment, whatever the number
\* of tasks handed to the pool.
C27_BoundedParallelism ==
    mode = "concurrent" => Cardinality(Running) <= max_workers

\* a pool of one thread, smaller than the number of tasks: one task runs, the
\* other was submitted and waits
C27_Witness ==
    /\ mode = "concurrent"
    /\ pc = "pool"
    /\ max_workers = 1
    /\ max_workers < Cardinality(submitted)
    /\ Cardinality(Running) = max_workers
    /\ download_tasks # <<>>

-----------------------------------------------------------------------------
(* Termination of the crawl (SpecTermination) *)

\* main has returned
Ended == exit_code # "none"

\* every pair the lookups yielded went through download_excel_for_location and
\* was counted as downloaded, skipped or failed
AllFinished ==
    \A task \in submitted :
        \E o \in outcomes : o.task = task /\ o.result \in {"downloaded", "skipped", "failed"}

\* the run ends
Terminates == <>Ended

\* C28: the crawl, sequential or concurrent, comes to an end, and when it has,
\* every task has finished as downloaded, skipped or failed.
C28_TerminatesAllFinished == <>(Ended /\ AllFinished)

-----------------------------------------------------------------------------
(* The effect of one call of download_excel_for_location (Spec) *)

OutcomesAs(result) == {o \in outcomes : o.result = result}

\* C30: in a sequential run, where each call runs on its own, whenever no call
\* is running every call made so far has completed and has added exactly 1 to
\* exactly one of downloaded, skipped and errors, total_size is the sum of the
\* bytes written by the calls that added to downloaded, and a call has returned
\* True exactly when it added to downloaded or to skipped.
C30_OneCounterPerCall ==
    mode = "sequential" /\ Running = {} =>
        /\ Cardinality(outcomes) = Len(invoked)
        /\ \A o \in outcomes : o.result \in {"downloaded", "skipped", "failed"}
        /\ stats.downloaded = Cardinality(OutcomesAs("downloaded"))
        /\ stats.skipped = Cardinality(OutcomesAs("skipped"))
        /\ stats.errors = Cardinality(OutcomesAs("failed"))
        /\ stats.total_size = BytesOf(OutcomesAs("downloaded"))
        /\ \A o \in outcomes :
              /\ o.result = "downloaded" => o.bytes = o.resp.size
              /\ o.ret = "True" <=> o.result \in {"downloaded", "skipped"}

\* a sequential run over the directory of an earlier run: one call skipped and
\* returned True, one failed and returned False
C30_Witness ==
    /\ mode = "sequential"
    /\ run = "again"
    /\ Running = {}
    /\ stats.skipped = 1
    /\ stats.errors = 1
    /\ stats.downloaded = 0
    /\ stats.total_size = 0
    /\ \E o \in outcomes : o.result = "skipped" /\ o.ret = "True"
    /\ \E o \in outcomes : o.result = "failed" /\ o.ret = "False"

=============================================================================
